---- MODULE Spec2Model ----
(***************************************************************************)
(* wolfinit: a process-1 supervisor.  The model follows the feature-       *)
(* complete variant of main (mounts, configuration, DHCP, launch, signal   *)
(* relay, zombie reaping, sysrq shutdown).                                  *)
(*                                                                         *)
(* Strings of the configuration are sequences of one-character strings so  *)
(* that parsing (strconv.Atoi), printing (fmt.Sprint) and lexing           *)
(* (shlex.Split) are computed character by character.                      *)
(***************************************************************************)
EXTENDS Integers, Sequences, FiniteSets, TLC

(***************************************************************************)
(* Bounds of the model.                                                    *)
(***************************************************************************)
\* termination-intent signals delivered to init per run
MaxSignals == 2
\* orphaned descendants (other than the workload) that exit per run
MaxOrphans == 1
\* records in accounts.users
MaxUsers == 2
\* runes in entrypoint.command
MaxArgLen == 3
\* results the DHCP client delivers
MaxLeases == 3
\* links netlink.LinkList returns
MaxLinks == 3

(***************************************************************************)
(* Characters and strings.                                                 *)
(***************************************************************************)
Digits == {"0", "1", "2", "3", "4", "5", "6", "7", "8", "9"}

DigitSeq == <<"0", "1", "2", "3", "4", "5", "6", "7", "8", "9">>

DigitVal(c) == CHOOSE d \in 0..9 : DigitSeq[d + 1] = c

DigitChar(d) == DigitSeq[d + 1]

EmptyStr == <<>>

RootStr == <<"r", "o", "o", "t">>

\* strconv.Atoi, base 10: optional sign, then one or more decimal digits.
\* (The int64 range error needs more digits than any string of the model has.)
RECURSIVE DigitsValue(_)
DigitsValue(s) ==
    IF s = <<>> THEN 0
    ELSE DigitsValue(SubSeq(s, 1, Len(s) - 1)) * 10 + DigitVal(s[Len(s)])

AtoiBody(s) == IF s # <<>> /\ s[1] \in {"+", "-"} THEN Tail(s) ELSE s

AtoiErr(s) ==
    \/ AtoiBody(s) = <<>>
    \/ \E i \in 1..Len(AtoiBody(s)) : AtoiBody(s)[i] \notin Digits

Atoi(s) ==
    IF AtoiErr(s) THEN [err |-> TRUE, val |-> 0]
    ELSE [err |-> FALSE,
          val |-> IF s[1] = "-" THEN 0 - DigitsValue(AtoiBody(s))
                  ELSE DigitsValue(AtoiBody(s))]

\* fmt.Sprint of an unsigned integer: decimal, no sign, no leading zeros.
RECURSIVE Sprint(_)
Sprint(n) ==
    IF n < 10 THEN <<DigitChar(n)>>
    ELSE Sprint(n \div 10) \o <<DigitChar(n % 10)>>

\* uint32(n), as its two 16-bit halves
Uint32(n) == [hi |-> (n \div 65536) % 65536, lo |-> n % 65536]

(***************************************************************************)
(* shlex.Split: the lexer's state machine over one string.                 *)
(***************************************************************************)
RuneClass(c) ==
    CASE c = " "  -> "space"
      [] c = "\"" -> "escapingQuote"
      [] c = "'"  -> "nonEscapingQuote"
      [] c = "\\" -> "escape"
      [] c = "#"  -> "comment"
      [] OTHER    -> "unknown"

\* Scan(s, i, state, value, toks): the lexer at rune i of s, in the given state,
\* with the runes of the current token in value and the words so far in toks.
RECURSIVE Scan(_, _, _, _, _)
Scan(s, i, state, value, toks) ==
    IF i > Len(s)
    THEN CASE state = "start"   -> [err |-> FALSE, toks |-> toks]
           [] state = "inWord"  -> [err |-> FALSE, toks |-> Append(toks, value)]
           [] state = "comment" -> [err |-> FALSE, toks |-> toks]
           [] OTHER             -> [err |-> TRUE, toks |-> toks]
    ELSE LET c == s[i]
             cls == RuneClass(c)
         IN CASE state = "start" ->
                   (CASE cls = "space"            -> Scan(s, i + 1, "start", <<>>, toks)
                      [] cls = "escapingQuote"    -> Scan(s, i + 1, "quotingEscaping", <<>>, toks)
                      [] cls = "nonEscapingQuote" -> Scan(s, i + 1, "quoting", <<>>, toks)
                      [] cls = "escape"           -> Scan(s, i + 1, "escaping", <<>>, toks)
                      [] cls = "comment"          -> Scan(s, i + 1, "comment", <<>>, toks)
                      [] OTHER                    -> Scan(s, i + 1, "inWord", <<c>>, toks))
              [] state = "inWord" ->
                   (CASE cls = "space"            -> Scan(s, i + 1, "start", <<>>, Append(toks, value))
                      [] cls = "escapingQuote"    -> Scan(s, i + 1, "quotingEscaping", value, toks)
                      [] cls = "nonEscapingQuote" -> Scan(s, i + 1, "quoting", value, toks)
                      [] cls = "escape"           -> Scan(s, i + 1, "escaping", value, toks)
                      [] OTHER                    -> Scan(s, i + 1, "inWord", Append(value, c), toks))
              [] state = "escaping" ->
                   Scan(s, i + 1, "inWord", Append(value, c), toks)
              [] state = "escapingQuoted" ->
                   Scan(s, i + 1, "quotingEscaping", Append(value, c), toks)
              [] state = "quotingEscaping" ->
                   (CASE cls = "escapingQuote"    -> Scan(s, i + 1, "inWord", value, toks)
                      [] cls = "escape"           -> Scan(s, i + 1, "escapingQuoted", value, toks)
                      [] OTHER                    -> Scan(s, i + 1, "quotingEscaping", Append(value, c), toks))
              [] state = "quoting" ->
                   (CASE cls = "nonEscapingQuote" -> Scan(s, i + 1, "inWord", value, toks)
                      [] OTHER                    -> Scan(s, i + 1, "quoting", Append(value, c), toks))
              [] OTHER -> \* in a comment: it runs to the end of the line
                   Scan(s, i + 1, "comment", <<>>, toks)

Split(s) == Scan(s, 1, "start", <<>>, <<>>)

(***************************************************************************)
(* The image configuration and the launcher's pure steps.                  *)
(***************************************************************************)
defaultPath ==
    <<"/", "s", "b", "i", "n", ":", "/", "u", "s", "r", "/", "s", "b",
      "i", "n", ":", "/", "b", "i", "n", ":", "/", "u", "s", "r", "/",
      "b", "i", "n", ":", "/", "u", "s", "r", "/", "l", "o", "c", "a",
      "l", "/", "s", "b", "i", "n", ":", "/", "u", "s", "r", "/", "l",
      "o", "c", "a", "l", "/", "b", "i", "n">>

\* the zero value of ImageConfiguration
ZeroConfig ==
    [entrypoint |-> EmptyStr, cmd |-> EmptyStr, workDir |-> EmptyStr,
     runAs |-> EmptyStr, users |-> <<>>,
     envNil |-> TRUE, environment |-> <<>>]

\* an environment step that writes the default over whatever PATH is configured
EnsurePathOverwriting(ic) ==
    LET env == ic.environment
    IN [ic EXCEPT !.envNil = FALSE,
                  !.environment =
                      [k \in DOMAIN env \cup {"PATH"} |->
                          IF k = "PATH" THEN defaultPath ELSE env[k]]]

\* "Ensure path is set in the environment": environment is a function from
\* variable names to values; a nil map is made first.
EnsurePath(ic) ==
    LET env == ic.environment
    IN [ic EXCEPT !.envNil = FALSE,
                  !.environment =
                      IF "PATH" \in DOMAIN env THEN env
                      ELSE [k \in DOMAIN env \cup {"PATH"} |->
                               IF k = "PATH" THEN defaultPath ELSE env[k]]]

\* the vector as strings.Split(ic.Cmd, " ") would extend it: an empty cmd adds
\* one empty argument
BuildArgsEmptyCmdArgument(ic) ==
    LET ep == IF ic.entrypoint # EmptyStr THEN Split(ic.entrypoint)
              ELSE [err |-> FALSE, toks |-> <<>>]
        cm == IF ic.cmd # EmptyStr THEN Split(ic.cmd)
              ELSE [err |-> FALSE, toks |-> <<EmptyStr>>]
    IN IF ep.err THEN [err |-> "failed to split entrypoint", args |-> <<>>]
       ELSE IF cm.err THEN [err |-> "failed to split command", args |-> <<>>]
       ELSE [err |-> "none", args |-> ep.toks \o cm.toks]

\* "Split entrypoint and cmd and build up the args."
BuildArgs(ic) ==
    LET ep == IF ic.entrypoint # EmptyStr THEN Split(ic.entrypoint)
              ELSE [err |-> FALSE, toks |-> <<>>]
        cm == IF ic.cmd # EmptyStr THEN Split(ic.cmd)
              ELSE [err |-> FALSE, toks |-> <<>>]
    IN IF ep.err THEN [err |-> "failed to split entrypoint", args |-> <<>>]
       ELSE IF cm.err THEN [err |-> "failed to split command", args |-> <<>>]
       ELSE [err |-> "none", args |-> ep.toks \o cm.toks]

\* index of the first account whose name or printed uid is runAs, 0 if none
FirstMatch(users, runAs) ==
    LET hits == {i \in 1..Len(users) :
                    users[i].username = runAs \/ Sprint(users[i].uid) = runAs}
    IN IF hits = {} THEN 0 ELSE CHOOSE i \in hits : \A j \in hits : i <= j

\* the resolution without the test of line 202, an empty runAs looked up and
\* parsed like any other
ResolveIdentityUnguarded(runAs, users) ==
    LET m == FirstMatch(users, runAs)
        uid1 == IF m = 0 THEN 0 ELSE users[m].uid
        gid1 == IF m = 0 THEN 0 ELSE users[m].gid
    IN IF uid1 = 0 /\ runAs # RootStr
       THEN [err |-> Atoi(runAs).err, uid |-> Atoi(runAs).val, gid |-> gid1]
       ELSE [err |-> FALSE, uid |-> uid1, gid |-> gid1]

\* the lookup alone, without the strconv.Atoi fallback of lines 215-221
ResolveIdentityLookupOnly(runAs, users) ==
    IF runAs = EmptyStr THEN [err |-> FALSE, uid |-> 0, gid |-> 0]
    ELSE LET m == FirstMatch(users, runAs)
         IN [err |-> FALSE,
             uid |-> IF m = 0 THEN 0 ELSE users[m].uid,
             gid |-> IF m = 0 THEN 0 ELSE users[m].gid]

\* "Set the user to run as (default to 0)."
ResolveIdentity(runAs, users) ==
    IF runAs = EmptyStr THEN [err |-> FALSE, uid |-> 0, gid |-> 0]
    ELSE LET m == FirstMatch(users, runAs)
             uid1 == IF m = 0 THEN 0 ELSE users[m].uid
             gid1 == IF m = 0 THEN 0 ELSE users[m].gid
         IN IF uid1 = 0 /\ runAs # RootStr
            THEN [err |-> Atoi(runAs).err, uid |-> Atoi(runAs).val, gid |-> gid1]
            ELSE [err |-> FALSE, uid |-> uid1, gid |-> gid1]

(***************************************************************************)
(* State.                                                                  *)
(***************************************************************************)
VARIABLES
    pc,            \* main: the statement it is at
    deferred,      \* main: stack of deferred calls, last registered last
    panicking,     \* main: unwinding after log.Panicf or a runtime fault
    logs,          \* messages main has logged
    initState,     \* "running", "fatal" (log.Fatalf: exit 1), "crashed" (a
                   \* goroutine's unrecovered panic: exit 2)
    mounts,        \* mount calls made so far: <<target, succeeded>>
    b,             \* bytes returned by os.ReadFile
    ic,            \* the ImageConfiguration
    loUp,          \* loopback is up
    links,         \* result of netlink.LinkList
    eth0,          \* index in links of the selected link, 0 = nil
    eth0Up,        \* the selected link is up
    dhcp,          \* DHCP: [sent, results consumed so far]
    osPath,        \* PATH of init's own environment
    args,          \* the argument vector
    cmd,           \* exec.Cmd: [made, dir, env]
    uid, gid,      \* the resolved identity (int)
    cred,          \* cmd.SysProcAttr.Credential
    sigs,          \* the channel: [made, closed, buf]
    notify,        \* signals relayed to sigs by signal.Notify
    ctxNotify,     \* signal.NotifyContext still relays os.Interrupt
    ctx,           \* "idle", "signalled" (interrupt received), "done" (cancelled)
    sigCount,      \* signals delivered to init so far
    received,      \* signals queued on sigs while the workload runs, in order
    fwdPc,         \* forwarder goroutine: "off", "recv", "deref", "signal", "done", "panic"
    fwdSig,        \* forwarder: the value received from sigs
    forwarded,     \* signals the forwarder passed to cmd.Process.Signal
    cmdProcess,    \* cmd.Process: 0 = nil, else the pid
    child,         \* workload: "none", "running", "zombie", "reaped"
    childStatus,   \* who collected the workload's exit status
    startAttempts, \* calls of cmd.Start
    waitResult,    \* cmd.Wait: "none", "ok", "error"
    rpPc,          \* reaper goroutine: "off", "wait4", "retry", "sleep"
    reaped,        \* pids the reaper collected and logged, in order
    zombies,       \* exited orphans not yet collected
    orphans,       \* orphans that have exited so far
    sysrq,         \* markers written to /proc/sysrq-trigger, in order
    file,          \* /etc/apko.json: [present, wellFormed, doc]
    sysDir,        \* the directory /sys exists
    kernelLinks,   \* the links the kernel has, in enumeration order
    leases,        \* results the DHCP client has yet to produce
    broken         \* the boot-time calls that fail in this guest

mainVars == <<pc, deferred, panicking, logs>>

bootVars == <<mounts, b, ic, loUp, links, eth0, eth0Up, dhcp, osPath>>

launchVars == <<args, cmd, uid, gid, cred>>

sigVars == <<sigs, notify, ctxNotify, ctx, sigCount, received>>

fwdVars == <<fwdPc, fwdSig, forwarded>>

childVars == <<cmdProcess, child, childStatus, startAttempts, waitResult>>

rpVars == <<rpPc, reaped, zombies, orphans>>

envVars == <<file, kernelLinks, leases, broken>>

vars == <<mainVars, initState, bootVars, launchVars, sigVars, fwdVars,
          childVars, rpVars, sysrq, sysDir, envVars>>

Signals == {"SIGINT", "SIGABRT", "SIGTERM"}

\* init is pid 1; the workload is the first process it forks
WorkloadPid == 1 + 1

OrphanPid(n) == WorkloadPid + n

\* whether a call to the kernel or a library succeeds in this guest
Succeeds(call) == call \notin broken

(***************************************************************************)
(* The guest the program boots in: configuration documents, links, the     *)
(* DHCP client's answers.                                                  *)
(***************************************************************************)
User(name, u, g) == [username |-> name, uid |-> u, gid |-> g]

Doc(ep, cm, ra, us, env) ==
    [entrypoint |-> ep, cmd |-> cm, workDir |-> EmptyStr, runAs |-> ra,
     users |-> us, envNil |-> (DOMAIN env = {}), environment |-> env]

NoEnv == <<>>

DocRoot == Doc(<<"/", "t">>, EmptyStr, RootStr, <<>>, NoEnv)

DocAlice ==
    Doc(<<"/", "t">>, <<"-", "v">>, <<"a", "l">>,
        <<User(RootStr, 0, 0), User(<<"a", "l">>, 7, 8)>>,
        [k \in {"PATH"} |-> <<"/", "x">>])

DocNumeric == Doc(<<"/", "t">>, EmptyStr, <<"1", "2">>, <<User(<<"a", "l">>, 7, 8)>>, NoEnv)

DocAdmin == Doc(<<"/", "t">>, EmptyStr, <<"a", "d">>, <<User(<<"a", "d">>, 0, 5)>>, NoEnv)

DocEmpty == Doc(EmptyStr, EmptyStr, EmptyStr, <<>>, NoEnv)

DocQuote == Doc(<<"'", "t">>, EmptyStr, EmptyStr, <<>>, NoEnv)

File(doc) == [present |-> TRUE, wellFormed |-> TRUE, doc |-> doc]

FileMissing == [present |-> FALSE, wellFormed |-> FALSE, doc |-> ZeroConfig]

\* the nil byte slice os.ReadFile returns with an error
NoBytes == FileMissing

FileMalformed == [present |-> TRUE, wellFormed |-> FALSE, doc |-> ZeroConfig]

Link(name, flags) == [name |-> name, flags |-> flags]

Lo == Link("lo", {"loopback"})

LinksPlain == <<Lo, Link("eth0", {"broadcast", "multicast"})>>

LinksMixed ==
    <<Lo, Link("dummy0", {"broadcast"}), Link("eth0", {"broadcast", "multicast"}),
      Link("eth1", {"broadcast", "multicast"})>>

LinksNone == <<Lo, Link("tun0", {"multicast"})>>

Guest(f, sd, ll, ls, br) ==
    [file |-> f, sysDir |-> sd, links |-> ll, leases |-> ls, broken |-> br]

\* the guests of the full specification
Guests ==
    {Guest(File(DocAlice), FALSE, LinksMixed, <<"lease">>, {}),
     Guest(File(DocAdmin), TRUE, LinksPlain, <<"error">>, {"/proc", "/tmp"}),
     Guest(File(DocEmpty), FALSE, LinksPlain, <<"unusable">>, {"/dev", "mkdir"}),
     Guest(File(DocQuote), FALSE, LinksPlain, <<>>, {"/sys", "/sys/fs/cgroup"}),
     Guest(File(DocRoot), FALSE, LinksNone, <<>>, {}),
     Guest(File(DocRoot), FALSE, LinksPlain, <<>>, {"read"}),
     Guest(File(DocRoot), FALSE, LinksPlain, <<>>, {"get lo"}),
     Guest(File(DocRoot), FALSE, LinksPlain, <<>>, {"set lo up"}),
     Guest(File(DocRoot), FALSE, LinksPlain, <<>>, {"list links"}),
     Guest(File(DocRoot), FALSE, LinksPlain, <<>>, {"set link up"}),
     Guest(FileMissing, FALSE, LinksPlain, <<>>, {}),
     Guest(FileMalformed, FALSE, LinksPlain, <<>>, {})}

(***************************************************************************)
(* Init: the process image at the entry of main.                           *)
(***************************************************************************)
ProcessInit ==
    /\ pc = "notifyContext"
    /\ deferred = <<>>
    /\ panicking = FALSE
    /\ logs = {}
    /\ initState = "running"
    /\ mounts = <<>>
    /\ b = NoBytes
    /\ ic = ZeroConfig
    /\ loUp = FALSE
    /\ links = <<>>
    /\ eth0 = 0
    /\ eth0Up = FALSE
    /\ dhcp = [sent |-> FALSE, results |-> <<>>]
    /\ osPath = EmptyStr
    /\ args = <<>>
    /\ cmd = [made |-> FALSE, dir |-> EmptyStr, env |-> {}]
    /\ uid = 0
    /\ gid = 0
    /\ cred = [set |-> FALSE, uid |-> Uint32(0), gid |-> Uint32(0)]
    /\ sigs = [made |-> FALSE, closed |-> FALSE, buf |-> <<>>]
    /\ notify = {}
    /\ ctxNotify = FALSE
    /\ ctx = "idle"
    /\ sigCount = 0
    /\ received = <<>>
    /\ fwdPc = "off"
    /\ fwdSig = "none"
    /\ forwarded = <<>>
    /\ cmdProcess = 0
    /\ child = "none"
    /\ childStatus = "none"
    /\ startAttempts = 0
    /\ waitResult = "none"
    /\ rpPc = "off"
    /\ reaped = <<>>
    /\ zombies = {}
    /\ orphans = 0
    /\ sysrq = <<>>

Init ==
    /\ ProcessInit
    /\ \E g \in Guests :
          /\ file = g.file
          /\ sysDir = g.sysDir
          /\ kernelLinks = g.links
          /\ leases = g.leases
          /\ broken = g.broken

(***************************************************************************)
(* main, from its entry to the launch of the workload.                     *)
(***************************************************************************)
Running == initState = "running"

\* log.Panicf, or a runtime fault in main: main unwinds its deferred calls
Panic(msg) ==
    /\ pc' = "unwind"
    /\ panicking' = TRUE
    /\ logs' = logs \cup {msg}
    /\ UNCHANGED deferred

Goto(next) ==
    /\ pc' = next
    /\ UNCHANGED <<deferred, panicking, logs>>

GotoLogging(next, msg) ==
    /\ pc' = next
    /\ logs' = logs \cup {msg}
    /\ UNCHANGED <<deferred, panicking>>

NotifyContext ==
    /\ Running /\ pc = "notifyContext"
    /\ ctxNotify' = TRUE
    /\ deferred' = Append(deferred, "cancel")
    /\ pc' = "goReaper"
    /\ UNCHANGED <<panicking, logs, initState, bootVars, launchVars,
                   sigs, notify, ctx, sigCount, received, fwdVars, childVars,
                   rpVars, sysrq, sysDir, envVars>>

GoReaper ==
    /\ Running /\ pc = "goReaper"
    /\ rpPc' = "wait4"
    /\ Goto("mountProc")
    /\ UNCHANGED <<initState, bootVars, launchVars, sigVars, fwdVars,
                   childVars, reaped, zombies, orphans, sysrq, sysDir, envVars>>

\* one mount.Mount call: a failure is logged and main goes on
Mount(at, target, next) ==
    /\ Running /\ pc = at
    /\ mounts' = Append(mounts, <<target, Succeeds(target)>>)
    /\ IF Succeeds(target) THEN Goto(next) ELSE GotoLogging(next, "failed to mount")
    /\ UNCHANGED <<initState, b, ic, loUp, links, eth0, eth0Up, dhcp, osPath,
                   launchVars, sigVars, fwdVars, childVars, rpVars, sysrq,
                   sysDir, envVars>>

MountProc == Mount("mountProc", "/proc", "deferShutdown")

DeferShutdown ==
    /\ Running /\ pc = "deferShutdown"
    /\ deferred' = Append(deferred, "shutdown")
    /\ pc' = "mountDev"
    /\ UNCHANGED <<panicking, logs, initState, bootVars, launchVars,
                   sigVars, fwdVars, childVars, rpVars, sysrq, sysDir, envVars>>

MountDev == Mount("mountDev", "/dev", "mkdirSys")

\* os.Mkdir("/sys"): an error (the directory exists, or any other) skips the mount
MkdirSys ==
    /\ Running /\ pc = "mkdirSys"
    /\ LET ok == ~sysDir /\ Succeeds("mkdir")
       IN /\ sysDir' = (sysDir \/ ok)
          /\ IF ok THEN Goto("mountSys")
             ELSE GotoLogging("mountCgroup", "failed to create /sys")
    /\ UNCHANGED <<initState, bootVars, launchVars, sigVars, fwdVars, childVars,
                   rpVars, sysrq, envVars>>

MountSys == Mount("mountSys", "/sys", "mountCgroup")

MountCgroup == Mount("mountCgroup", "/sys/fs/cgroup", "mountTmp")

MountTmp == Mount("mountTmp", "/tmp", "readFile")

\* os.ReadFile: on an error b stays nil, the error is logged and main goes on
ReadFile ==
    /\ Running /\ pc = "readFile"
    /\ LET ok == file.present /\ Succeeds("read")
       IN /\ b' = IF ok THEN file ELSE NoBytes
          /\ IF ok THEN Goto("unmarshal")
             ELSE GotoLogging("unmarshal", "failed to read /etc/apko.json")
    /\ UNCHANGED <<initState, mounts, ic, loUp, links, eth0, eth0Up, dhcp,
                   osPath, launchVars, sigVars, fwdVars, childVars, rpVars,
                   sysrq, sysDir, envVars>>

\* json.Unmarshal: empty input and malformed input are both errors
UnmarshalErr(bytes) == ~bytes.present \/ ~bytes.wellFormed

Unmarshal ==
    /\ Running /\ pc = "unmarshal"
    /\ IF UnmarshalErr(b)
       THEN Panic("failed to unmarshal /etc/apko.json") /\ ic' = ic
       ELSE Goto("ensurePath") /\ ic' = b.doc
    /\ UNCHANGED <<initState, mounts, b, loUp, links, eth0, eth0Up,
                   dhcp, osPath, launchVars, sigVars, fwdVars, childVars,
                   rpVars, sysrq, sysDir, envVars>>

EnsurePathStep ==
    /\ Running /\ pc = "ensurePath"
    /\ ic' = EnsurePath(ic)
    /\ Goto("loopbackUp")
    /\ UNCHANGED <<initState, mounts, b, loUp, links, eth0, eth0Up,
                   dhcp, osPath, launchVars, sigVars, fwdVars, childVars,
                   rpVars, sysrq, sysDir, envVars>>

\* netlink.LinkByName("lo") then netlink.LinkSetUp(lo): either error is fatal
LoopbackUp ==
    /\ Running /\ pc = "loopbackUp"
    /\ loUp' = (Succeeds("get lo") /\ Succeeds("set lo up"))
    /\ IF ~Succeeds("get lo") THEN Panic("failed to get lo")
       ELSE IF ~Succeeds("set lo up") THEN Panic("failed to set lo up")
       ELSE Goto("linkList")
    /\ UNCHANGED <<initState, mounts, b, ic, links, eth0, eth0Up, dhcp, osPath,
                   launchVars, sigVars, fwdVars, childVars, rpVars, sysrq,
                   sysDir, envVars>>

LinkList ==
    /\ Running /\ pc = "linkList"
    /\ links' = IF Succeeds("list links") THEN kernelLinks ELSE <<>>
    /\ IF Succeeds("list links") THEN Goto("selectLink")
       ELSE Panic("failed to list links")
    /\ UNCHANGED <<initState, mounts, b, ic, loUp, eth0, eth0Up, dhcp, osPath,
                   launchVars, sigVars, fwdVars, childVars, rpVars, sysrq,
                   sysDir, envVars>>

\* a selection that looks at the multicast flag only
FirstMulticast(ll) ==
    LET hits == {i \in 1..Len(ll) : "multicast" \in ll[i].flags}
    IN IF hits = {} THEN 0 ELSE CHOOSE i \in hits : \A j \in hits : i <= j

\* the first link with both the broadcast and the multicast flag, 0 if none
FirstBroadcastMulticast(ll) ==
    LET hits == {i \in 1..Len(ll) : {"broadcast", "multicast"} \subseteq ll[i].flags}
    IN IF hits = {} THEN 0 ELSE CHOOSE i \in hits : \A j \in hits : i <= j

SelectLink ==
    /\ Running /\ pc = "selectLink"
    /\ eth0' = FirstBroadcastMulticast(links)
    /\ Goto("eth0Up")
    /\ UNCHANGED <<initState, mounts, b, ic, loUp, links, eth0Up, dhcp,
                   osPath, launchVars, sigVars, fwdVars, childVars, rpVars,
                   sysrq, sysDir, envVars>>

Eth0Up ==
    /\ Running /\ pc = "eth0Up"
    /\ IF eth0 = 0
       THEN /\ Panic("no suitable interface found to listen on")
            /\ UNCHANGED eth0Up
       ELSE /\ eth0Up' = Succeeds("set link up")
            /\ IF Succeeds("set link up") THEN Goto("sendRequests")
               ELSE Panic("failed to set network interface up")
    /\ UNCHANGED <<initState, mounts, b, ic, loUp, links, eth0, dhcp, osPath,
                   launchVars, sigVars, fwdVars, childVars, rpVars, sysrq,
                   sysDir, envVars>>

SendRequests ==
    /\ Running /\ pc = "sendRequests"
    /\ dhcp' = [dhcp EXCEPT !.sent = TRUE]
    /\ Goto("results")
    /\ UNCHANGED <<initState, mounts, b, ic, loUp, links, eth0, eth0Up,
                   osPath, launchVars, sigVars, fwdVars, childVars, rpVars,
                   sysrq, sysDir, envVars>>

\* an iteration that treats a result it cannot apply as fatal
DhcpResultFatal ==
    /\ Running /\ pc = "results" /\ leases # <<>>
    /\ leases' = Tail(leases)
    /\ dhcp' = [dhcp EXCEPT !.results = Append(@, Head(leases))]
    /\ IF Head(leases) = "lease" THEN Goto("results")
       ELSE Panic("Could not configure")
    /\ UNCHANGED <<initState, mounts, b, ic, loUp, links, eth0, eth0Up,
                   osPath, launchVars, sigVars, fwdVars, childVars, rpVars,
                   sysrq, sysDir, file, kernelLinks, broken>>

\* one iteration of "for result := range r": "error" is a result with Err set,
\* "unusable" a lease whose Configure fails, "lease" a lease that is applied
DhcpResult ==
    /\ Running /\ pc = "results" /\ leases # <<>>
    /\ leases' = Tail(leases)
    /\ dhcp' = [dhcp EXCEPT !.results = Append(@, Head(leases))]
    /\ IF Head(leases) = "lease" THEN Goto("results")
       ELSE GotoLogging("results", "Could not configure")
    /\ UNCHANGED <<initState, mounts, b, ic, loUp, links, eth0, eth0Up,
                   osPath, launchVars, sigVars, fwdVars, childVars, rpVars,
                   sysrq, sysDir, file, kernelLinks, broken>>

DhcpFinished ==
    /\ Running /\ pc = "results" /\ leases = <<>>
    /\ GotoLogging("setenv", "Finished trying to configure all interfaces.")
    /\ UNCHANGED <<initState, bootVars, launchVars, sigVars, fwdVars,
                   childVars, rpVars, sysrq, sysDir, envVars>>

Setenv ==
    /\ Running /\ pc = "setenv"
    /\ osPath' = ic.environment["PATH"]
    /\ Goto("splitArgs")
    /\ UNCHANGED <<initState, mounts, b, ic, loUp, links, eth0, eth0Up,
                   dhcp, launchVars, sigVars, fwdVars, childVars, rpVars, sysrq,
                   sysDir, envVars>>

SplitArgs ==
    /\ Running /\ pc = "splitArgs"
    /\ args' = BuildArgs(ic).args
    /\ IF BuildArgs(ic).err = "none" THEN Goto("command")
       ELSE Panic(BuildArgs(ic).err)
    /\ UNCHANGED <<initState, bootVars, cmd, uid, gid, cred, sigVars,
                   fwdVars, childVars, rpVars, sysrq, sysDir, envVars>>

\* a launch that takes the empty vector as it takes any other
CommandUnchecked ==
    /\ Running /\ pc = "command"
    /\ Goto("identity")
    /\ cmd' = [made |-> TRUE, dir |-> ic.workDir,
               env |-> {<<k, ic.environment[k]>> : k \in DOMAIN ic.environment}]
    /\ UNCHANGED <<initState, bootVars, args, uid, gid, cred, sigVars,
                   fwdVars, childVars, rpVars, sysrq, sysDir, envVars>>

\* exec.CommandContext(ctx, args[0], args[1:]...): args[0] of an empty vector
\* is a runtime fault; then cmd.Dir, the standard streams and cmd.Env
Command ==
    /\ Running /\ pc = "command"
    /\ IF args = <<>>
       THEN Panic("index out of range") /\ cmd' = cmd
       ELSE /\ Goto("identity")
            /\ cmd' = [made |-> TRUE, dir |-> ic.workDir,
                       env |-> {<<k, ic.environment[k]>> : k \in DOMAIN ic.environment}]
    /\ UNCHANGED <<initState, bootVars, args, uid, gid, cred, sigVars,
                   fwdVars, childVars, rpVars, sysrq, sysDir, envVars>>

Identity ==
    /\ Running /\ pc = "identity"
    /\ LET r == ResolveIdentity(ic.runAs, ic.users)
       IN /\ uid' = r.uid
          /\ gid' = r.gid
          /\ IF r.err THEN Panic("failed to convert run-as user")
             ELSE Goto("credential")
    /\ UNCHANGED <<initState, bootVars, args, cmd, cred, sigVars,
                   fwdVars, childVars, rpVars, sysrq, sysDir, envVars>>

Credential ==
    /\ Running /\ pc = "credential"
    /\ cred' = [set |-> TRUE, uid |-> Uint32(uid), gid |-> Uint32(gid)]
    /\ Goto("makeSigs")
    /\ UNCHANGED <<initState, bootVars, args, cmd, uid, gid, sigVars,
                   fwdVars, childVars, rpVars, sysrq, sysDir, envVars>>

(***************************************************************************)
(* main: signal relay, launch, wait, teardown.                             *)
(***************************************************************************)
MakeSigs ==
    /\ Running /\ pc = "makeSigs"
    /\ sigs' = [made |-> TRUE, closed |-> FALSE, buf |-> <<>>]
    /\ deferred' = Append(deferred, "close(sigs)")
    /\ pc' = "notify"
    /\ UNCHANGED <<panicking, logs, initState, bootVars, launchVars,
                   notify, ctxNotify, ctx, sigCount, received, fwdVars,
                   childVars, rpVars, sysrq, sysDir, envVars>>

Notify ==
    /\ Running /\ pc = "notify"
    /\ notify' = Signals
    /\ deferred' = Append(deferred, "signal.Reset")
    /\ pc' = "goForward"
    /\ UNCHANGED <<panicking, logs, initState, bootVars, launchVars,
                   sigs, ctxNotify, ctx, sigCount, received, fwdVars, childVars,
                   rpVars, sysrq, sysDir, envVars>>

GoForward ==
    /\ Running /\ pc = "goForward"
    /\ fwdPc' = "recv"
    /\ Goto("start")
    /\ UNCHANGED <<initState, bootVars, launchVars, sigVars, fwdSig,
                   forwarded, childVars, rpVars, sysrq, sysDir, envVars>>

\* cmd.Start: it returns the context's error without forking when the context
\* is already done; otherwise it forks, and an error is fatal.  The fork and
\* the assignment of cmd.Process are two steps: the forwarder reads
\* cmd.Process with no synchronisation.
Start ==
    /\ Running /\ pc = "start"
    /\ startAttempts' = startAttempts + 1
    /\ IF ctx = "done"
       THEN /\ Panic("failed to run command")
            /\ UNCHANGED child
       ELSE \E ok \in BOOLEAN :
               /\ child' = IF ok THEN "running" ELSE child
               /\ IF ok THEN Goto("startReturn")
                  ELSE Panic("failed to run command")
    /\ UNCHANGED <<initState, bootVars, launchVars, sigVars, fwdVars,
                   cmdProcess, childStatus, waitResult, rpVars,
                   sysrq, sysDir, envVars>>

StartReturn ==
    /\ Running /\ pc = "startReturn"
    /\ cmdProcess' = WorkloadPid
    /\ Goto("wait")
    /\ UNCHANGED <<initState, bootVars, launchVars, sigVars, fwdVars,
                   child, childStatus, startAttempts, waitResult,
                   rpVars, sysrq, sysDir, envVars>>

\* a wait that returns only with the workload's own status, and so never
\* returns once another wait call has collected that status
WaitOwnStatusOnly ==
    /\ Running /\ pc = "wait"
    /\ child = "zombie"
    /\ waitResult' = "ok"
    /\ childStatus' = "supervisor"
    /\ child' = "reaped"
    /\ Goto("unwind")
    /\ UNCHANGED <<initState, bootVars, launchVars, sigVars, fwdVars,
                   cmdProcess, startAttempts, rpVars, sysrq, sysDir,
                   envVars>>

\* cmd.Wait: it returns the status of the exited workload, or an error when the
\* status has already been collected; main ignores the result and returns
Wait ==
    /\ Running /\ pc = "wait"
    /\ child \in {"zombie", "reaped"}
    /\ waitResult' = IF child = "zombie" THEN "ok" ELSE "error"
    /\ childStatus' = IF child = "zombie" THEN "supervisor" ELSE childStatus
    /\ child' = "reaped"
    /\ Goto("unwind")
    /\ UNCHANGED <<initState, bootVars, launchVars, sigVars, fwdVars,
                   cmdProcess, startAttempts, rpVars, sysrq, sysDir,
                   envVars>>

\* main returns or panics: the deferred calls run, last registered first.
\* signal.Reset() with no argument undoes every Notify, NotifyContext's too.
Unwind ==
    /\ Running /\ pc = "unwind"
    /\ LET top == IF deferred = <<>> THEN "none" ELSE deferred[Len(deferred)]
       IN /\ deferred' = IF deferred = <<>> THEN deferred
                         ELSE SubSeq(deferred, 1, Len(deferred) - 1)
          /\ pc' = IF top = "shutdown" THEN "writeS" ELSE pc
          /\ notify' = IF top = "signal.Reset" THEN {} ELSE notify
          /\ ctxNotify' = IF top = "signal.Reset" THEN FALSE ELSE ctxNotify
          /\ sigs' = IF top = "close(sigs)" THEN [sigs EXCEPT !.closed = TRUE] ELSE sigs
          /\ ctx' = IF top = "cancel" THEN "done" ELSE ctx
          /\ initState' = IF top # "none" THEN initState
                          ELSE IF panicking THEN "crashed" ELSE "returned"
    /\ UNCHANGED <<panicking, logs, bootVars, launchVars, sigCount,
                   received, fwdVars, childVars, rpVars, sysrq, sysDir, envVars>>

\* a shutdown step that logs a failed write and carries on to the next step
WriteMarkerIgnoringError(at, marker, next, msg) ==
    /\ Running /\ pc = at
    /\ \E ok \in BOOLEAN :
          /\ sysrq' = IF ok THEN Append(sysrq, marker) ELSE sysrq
          /\ IF ok THEN Goto(next) ELSE GotoLogging(next, msg)
    /\ UNCHANGED <<initState, bootVars, launchVars, sigVars, fwdVars,
                   childVars, rpVars, sysDir, envVars>>

\* shutdown(): one os.WriteFile to /proc/sysrq-trigger; log.Fatalf on an error
WriteMarker(at, marker, next, msg) ==
    /\ Running /\ pc = at
    /\ \E ok \in BOOLEAN :
          /\ sysrq' = IF ok THEN Append(sysrq, marker) ELSE sysrq
          /\ initState' = IF ok THEN initState ELSE "fatal"
          /\ IF ok THEN Goto(next) ELSE GotoLogging(at, msg)
    /\ UNCHANGED <<bootVars, launchVars, sigVars, fwdVars, childVars, rpVars,
                   sysDir, envVars>>

WriteSync == WriteMarker("writeS", "s", "writeO", "failed to sync")

\* the last statement of shutdown() is select {}: from "block" main never moves
WritePoweroff == WriteMarker("writeO", "o", "block", "failed to poweroff")

(***************************************************************************)
(* The forwarder goroutine.                                                *)
(***************************************************************************)
\* sig := <-sigs; a closed, empty channel yields the nil signal
FwdReceive ==
    /\ Running /\ fwdPc = "recv"
    /\ sigs.buf # <<>> \/ sigs.closed
    /\ fwdSig' = IF sigs.buf # <<>> THEN Head(sigs.buf) ELSE "nil"
    /\ sigs' = IF sigs.buf # <<>> THEN [sigs EXCEPT !.buf = Tail(@)] ELSE sigs
    /\ fwdPc' = "deref"
    /\ UNCHANGED <<mainVars, initState, bootVars, launchVars, notify,
                   ctxNotify, ctx, sigCount, received, forwarded, childVars,
                   rpVars, sysrq, sysDir, envVars>>

\* log.Printf(..., sig, cmd.Process.Pid): a nil cmd.Process is a runtime fault
\* in this goroutine, which ends the whole process
FwdLog ==
    /\ Running /\ fwdPc = "deref"
    /\ fwdPc' = IF cmdProcess = 0 THEN "panic" ELSE "signal"
    /\ initState' = IF cmdProcess = 0 THEN "crashed" ELSE initState
    /\ UNCHANGED <<mainVars, bootVars, launchVars, sigVars, fwdSig,
                   forwarded, childVars, rpVars, sysrq, sysDir, envVars>>

\* cmd.Process.Signal(sig): the nil signal is refused
FwdSignal ==
    /\ Running /\ fwdPc = "signal"
    /\ forwarded' = IF fwdSig = "nil" THEN forwarded ELSE Append(forwarded, fwdSig)
    /\ fwdPc' = "done"
    /\ UNCHANGED <<mainVars, initState, bootVars, launchVars, sigVars,
                   fwdSig, cmdProcess, child, childStatus, startAttempts,
                   waitResult, rpVars, sysrq, sysDir, envVars>>

(***************************************************************************)
(* reapZombieProcesses.                                                    *)
(***************************************************************************)
\* what Wait4(-1, WNOHANG) can collect: any exited child of init
Reapable == zombies \cup (IF child = "zombie" THEN {WorkloadPid} ELSE {})

\* Wait4 returns a pid: it is logged and the loop goes round with no sleep
ReaperReap ==
    /\ Running /\ rpPc \in {"wait4", "retry"}
    /\ \E p \in Reapable :
          /\ reaped' = Append(reaped, p)
          /\ zombies' = zombies \ {p}
          /\ child' = IF p = WorkloadPid THEN "reaped" ELSE child
          /\ childStatus' = IF p = WorkloadPid THEN "reaper" ELSE childStatus
    /\ rpPc' = "wait4"
    /\ UNCHANGED <<mainVars, initState, bootVars, launchVars, sigVars,
                   fwdVars, cmdProcess, startAttempts, waitResult,
                   orphans, sysrq, sysDir, envVars>>

\* a reaper that backs off for a second after an interrupted Wait4
ReaperInterruptedSleeps ==
    /\ Running /\ rpPc \in {"wait4", "retry"}
    /\ rpPc' = "sleep"
    /\ UNCHANGED <<mainVars, initState, bootVars, launchVars, sigVars, fwdVars,
                   childVars, reaped, zombies, orphans, sysrq, sysDir, envVars>>

\* Wait4 returns EINTR: the inner loop calls Wait4 again with the pid returned
\* (-1, the wildcard)
ReaperInterrupted ==
    /\ Running /\ rpPc \in {"wait4", "retry"}
    /\ rpPc' = "retry"
    /\ UNCHANGED <<mainVars, initState, bootVars, launchVars, sigVars, fwdVars,
                   childVars, reaped, zombies, orphans, sysrq, sysDir, envVars>>

\* a reaper that returns when there is nothing to collect
ReaperIdleReturns ==
    /\ Running /\ rpPc \in {"wait4", "retry"}
    /\ Reapable = {}
    /\ rpPc' = "off"
    /\ UNCHANGED <<mainVars, initState, bootVars, launchVars, sigVars,
                   fwdVars, childVars, reaped, zombies, orphans, sysrq, sysDir,
                   envVars>>

\* Wait4 returns pid <= 0: nothing to collect, sleep a second
ReaperIdle ==
    /\ Running /\ rpPc \in {"wait4", "retry"}
    /\ Reapable = {}
    /\ rpPc' = "sleep"
    /\ UNCHANGED <<mainVars, initState, bootVars, launchVars, sigVars,
                   fwdVars, childVars, reaped, zombies, orphans, sysrq, sysDir,
                   envVars>>

ReaperWake ==
    /\ Running /\ rpPc = "sleep"
    /\ rpPc' = "wait4"
    /\ UNCHANGED <<mainVars, initState, bootVars, launchVars, sigVars,
                   fwdVars, childVars, reaped, zombies, orphans, sysrq, sysDir,
                   envVars>>

(***************************************************************************)
(* Signals, the context, the workload and its descendants.                 *)
(***************************************************************************)
\* a signal some channel is registered for reaches init: os/signal sends it to
\* each registered channel without blocking (a full channel drops it)
\* the signals the guest sends to init: SIGINT, which NotifyContext handles as
\* well, and SIGTERM; init handles SIGABRT exactly as it handles SIGTERM
Arriving == {"SIGINT", "SIGTERM"}

SignalArrive ==
    /\ Running /\ sigCount < MaxSignals
    /\ \E s \in Arriving :
          /\ s \in notify \/ (s = "SIGINT" /\ ctxNotify)
          /\ sigs' = IF s \in notify /\ Len(sigs.buf) < 1
                     THEN [sigs EXCEPT !.buf = Append(@, s)] ELSE sigs
          /\ ctx' = IF s = "SIGINT" /\ ctxNotify /\ ctx = "idle" THEN "signalled" ELSE ctx
          /\ received' = IF s \in notify /\ Len(sigs.buf) < 1 /\ child = "running"
                         THEN Append(received, s) ELSE received
    /\ sigCount' = sigCount + 1
    /\ UNCHANGED <<mainVars, initState, bootVars, launchVars, notify,
                   ctxNotify, fwdVars, childVars, rpVars, sysrq, sysDir, envVars>>

\* NotifyContext's goroutine cancels the context
CtxCancel ==
    /\ Running /\ ctx = "signalled"
    /\ ctx' = "done"
    /\ UNCHANGED <<mainVars, initState, bootVars, launchVars, sigs,
                   notify, ctxNotify, sigCount, received, fwdVars, childVars,
                   rpVars, sysrq, sysDir, envVars>>

\* exec.CommandContext: once started, a done context kills the workload
CtxKill ==
    /\ Running /\ ctx = "done" /\ pc = "wait" /\ child = "running"
    /\ child' = "zombie"
    /\ UNCHANGED <<mainVars, initState, bootVars, launchVars, sigVars,
                   fwdVars, cmdProcess, childStatus, startAttempts, waitResult,
                   rpVars, sysrq, sysDir, envVars>>

ChildExit ==
    /\ Running /\ child = "running"
    /\ child' = "zombie"
    /\ UNCHANGED <<mainVars, initState, bootVars, launchVars, sigVars,
                   fwdVars, cmdProcess, childStatus, startAttempts,
                   waitResult, rpVars, sysrq, sysDir, envVars>>

\* a descendant of the workload, re-parented to init, exits
OrphanExit ==
    /\ Running /\ child # "none" /\ orphans < MaxOrphans
    /\ orphans' = orphans + 1
    /\ zombies' = zombies \cup {OrphanPid(orphans + 1)}
    /\ UNCHANGED <<mainVars, initState, bootVars, launchVars, sigVars,
                   fwdVars, childVars, rpPc, reaped, sysrq, sysDir, envVars>>

(***************************************************************************)
(* Specifications.                                                         *)
(***************************************************************************)
MainStep ==
    \/ NotifyContext \/ GoReaper \/ MountProc \/ DeferShutdown \/ MountDev
    \/ MkdirSys \/ MountSys \/ MountCgroup \/ MountTmp \/ ReadFile \/ Unmarshal
    \/ EnsurePathStep \/ LoopbackUp \/ LinkList \/ SelectLink \/ Eth0Up
    \/ SendRequests \/ DhcpResult \/ DhcpFinished \/ Setenv \/ SplitArgs
    \/ Command \/ Identity \/ Credential \/ MakeSigs \/ Notify \/ GoForward
    \/ Start \/ StartReturn \/ Wait \/ Unwind \/ WriteSync \/ WritePoweroff

Forwarder == FwdReceive \/ FwdLog \/ FwdSignal

Reaper == ReaperReap \/ ReaperInterrupted \/ ReaperIdle \/ ReaperWake

Context == CtxCancel \/ CtxKill

Environment == SignalArrive \/ ChildExit \/ OrphanExit

Next == MainStep \/ Forwarder \/ Reaper \/ Context \/ Environment

Spec == Init /\ [][Next]_vars

\* the Go scheduler runs every runnable goroutine; the environment owes nothing
FairSpec ==
    /\ Spec
    /\ WF_vars(MainStep)
    /\ WF_vars(Forwarder)
    /\ WF_vars(Reaper)
    /\ WF_vars(Context)

(***************************************************************************)
(* The launcher alone, over many configurations: main from os.Setenv to    *)
(* the credential, in a guest that booted without a failure.               *)
(***************************************************************************)
RunAsValues ==
    {EmptyStr, RootStr, <<"a", "l">>, <<"a", "d">>, <<"0">>, <<"7">>, <<"1", "2">>,
     <<"0", "0", "7">>, <<"+", "7">>, <<"1", "x">>}

Accounts ==
    {User(RootStr, 0, 0), User(<<"a", "l">>, 7, 8), User(<<"a", "d">>, 0, 5),
     User(<<"b", "o">>, 7, 9), User(<<"1", "2">>, 3, 4)}

RECURSIVE UserLists(_)
UserLists(n) ==
    IF n = 0 THEN {<<>>}
    ELSE UserLists(n - 1) \cup
         {Append(us, u) : us \in {l \in UserLists(n - 1) : Len(l) = n - 1}, u \in Accounts}

LaunchDocs ==
    {Doc(<<"/", "t">>, EmptyStr, ra, us, NoEnv) :
        ra \in RunAsValues, us \in UserLists(MaxUsers)}

Booted(doc) ==
    /\ pc = "setenv"
    /\ deferred = <<"cancel", "shutdown">>
    /\ panicking = FALSE
    /\ logs = {"Finished trying to configure all interfaces."}
    /\ initState = "running"
    /\ mounts = <<<<"/proc", TRUE>>, <<"/dev", TRUE>>, <<"/sys", TRUE>>,
                  <<"/sys/fs/cgroup", TRUE>>, <<"/tmp", TRUE>>>>
    /\ b = File(doc)
    /\ ic = EnsurePath(doc)
    /\ loUp = TRUE
    /\ links = LinksPlain
    /\ eth0 = FirstBroadcastMulticast(LinksPlain)
    /\ eth0Up = TRUE
    /\ dhcp = [sent |-> TRUE, results |-> <<"lease">>]
    /\ osPath = EmptyStr
    /\ args = <<>>
    /\ cmd = [made |-> FALSE, dir |-> EmptyStr, env |-> {}]
    /\ uid = 0
    /\ gid = 0
    /\ cred = [set |-> FALSE, uid |-> Uint32(0), gid |-> Uint32(0)]
    /\ sigs = [made |-> FALSE, closed |-> FALSE, buf |-> <<>>]
    /\ notify = {}
    /\ ctxNotify = TRUE
    /\ ctx = "idle"
    /\ sigCount = 0
    /\ received = <<>>
    /\ fwdPc = "off"
    /\ fwdSig = "none"
    /\ forwarded = <<>>
    /\ cmdProcess = 0
    /\ child = "none"
    /\ childStatus = "none"
    /\ startAttempts = 0
    /\ waitResult = "none"
    /\ rpPc = "sleep"
    /\ reaped = <<>>
    /\ zombies = {}
    /\ orphans = 0
    /\ sysrq = <<>>
    /\ file = File(doc)
    /\ sysDir = TRUE
    /\ kernelLinks = LinksPlain
    /\ leases = <<>>
    /\ broken = {}

InitLaunch == \E doc \in LaunchDocs : Booted(doc)

NextLaunch == Setenv \/ SplitArgs \/ Command \/ Identity \/ Credential

SpecLaunch == InitLaunch /\ [][NextLaunch]_vars

(***************************************************************************)
(* The argument vector alone, over many entrypoints and commands: main     *)
(* from os.Setenv to exec.CommandContext, and its teardown when it aborts. *)
(***************************************************************************)
ArgRunes == {"t", " ", "'", "\"", "\\", "#"}

RECURSIVE Strings(_)
Strings(n) ==
    IF n = 0 THEN {<<>>}
    ELSE Strings(n - 1) \cup
         {Append(s, c) : s \in {x \in Strings(n - 1) : Len(x) = n - 1}, c \in ArgRunes}

CmdValues ==
    {EmptyStr, <<"-", "v">>, <<"a", " ", " ", "b">>, <<"'", "a", " ", "b", "'">>,
     <<"'", "'">>, <<"\"", "a">>, <<" ">>}

ArgDocs ==
    {Doc(ep, cm, RootStr, <<>>, NoEnv) : ep \in Strings(MaxArgLen), cm \in CmdValues}

InitArgs == \E doc \in ArgDocs : Booted(doc)

NextArgs ==
    Setenv \/ SplitArgs \/ Command \/ Unwind \/ WriteSync \/ WritePoweroff

SpecArgs == InitArgs /\ [][NextArgs]_vars /\ WF_vars(NextArgs)

(***************************************************************************)
(* Parts of the boot alone, each over many inputs, in a guest whose mounts *)
(* all succeeded.                                                          *)
(***************************************************************************)
\* what the launch, the relay and the reaper look like during the boot
BootQuiet ==
    /\ deferred = <<"cancel", "shutdown">>
    /\ panicking = FALSE
    /\ logs = {}
    /\ initState = "running"
    /\ mounts = <<<<"/proc", TRUE>>, <<"/dev", TRUE>>, <<"/sys", TRUE>>,
                  <<"/sys/fs/cgroup", TRUE>>, <<"/tmp", TRUE>>>>
    /\ dhcp = [sent |-> FALSE, results |-> <<>>]
    /\ osPath = EmptyStr
    /\ args = <<>>
    /\ cmd = [made |-> FALSE, dir |-> EmptyStr, env |-> {}]
    /\ uid = 0
    /\ gid = 0
    /\ cred = [set |-> FALSE, uid |-> Uint32(0), gid |-> Uint32(0)]
    /\ sigs = [made |-> FALSE, closed |-> FALSE, buf |-> <<>>]
    /\ notify = {}
    /\ ctxNotify = TRUE
    /\ ctx = "idle"
    /\ sigCount = 0
    /\ received = <<>>
    /\ fwdPc = "off"
    /\ fwdSig = "none"
    /\ forwarded = <<>>
    /\ cmdProcess = 0
    /\ child = "none"
    /\ childStatus = "none"
    /\ startAttempts = 0
    /\ waitResult = "none"
    /\ rpPc = "sleep"
    /\ reaped = <<>>
    /\ zombies = {}
    /\ orphans = 0
    /\ sysrq = <<>>
    /\ sysDir = TRUE
    /\ kernelLinks = LinksPlain
    /\ broken = {}

\* main about to read /etc/apko.json, which holds f
Mounted(f) ==
    /\ BootQuiet
    /\ pc = "readFile"
    /\ b = NoBytes
    /\ ic = ZeroConfig
    /\ loUp = FALSE
    /\ links = <<>>
    /\ eth0 = 0
    /\ eth0Up = FALSE
    /\ file = f
    /\ leases = <<>>

EnvNames == {"PATH", "HOME", "LANG"}

EnvValues == {EmptyStr, <<"/", "x">>, defaultPath}

Environments == UNION {[names -> EnvValues] : names \in SUBSET EnvNames}

ConfigFiles ==
    {File(Doc(<<"/", "t">>, EmptyStr, RootStr, <<>>, env)) : env \in Environments}
        \cup {FileMissing, FileMalformed}

InitConfig == \E f \in ConfigFiles : Mounted(f)

NextConfig == ReadFile \/ Unmarshal \/ EnsurePathStep

SpecConfig == InitConfig /\ [][NextConfig]_vars

\* main about to ask for leases on the link it brought up; the DHCP client will
\* deliver the results ls
LinkedUp(ls) ==
    /\ BootQuiet
    /\ pc = "sendRequests"
    /\ b = File(DocRoot)
    /\ ic = EnsurePath(DocRoot)
    /\ loUp = TRUE
    /\ links = LinksPlain
    /\ eth0 = FirstBroadcastMulticast(LinksPlain)
    /\ eth0Up = TRUE
    /\ file = File(DocRoot)
    /\ leases = ls

RECURSIVE LeaseSeqs(_)
LeaseSeqs(n) ==
    IF n = 0 THEN {<<>>}
    ELSE LeaseSeqs(n - 1) \cup
         {Append(s, r) : s \in {x \in LeaseSeqs(n - 1) : Len(x) = n - 1},
                         r \in {"error", "unusable", "lease"}}

InitDhcp == \E ls \in LeaseSeqs(MaxLeases) : LinkedUp(ls)

NextDhcp == SendRequests \/ DhcpResult \/ DhcpFinished \/ Setenv

SpecDhcp == InitDhcp /\ [][NextDhcp]_vars /\ WF_vars(NextDhcp)

(***************************************************************************)
(* The whole of init in a guest that boots without a failure and sends     *)
(* init no signal: main, the forwarder and the reaper, the workload and    *)
(* its descendants.                                                        *)
(***************************************************************************)
InitUnsignalled ==
    /\ ProcessInit
    /\ file = File(DocRoot)
    /\ sysDir = FALSE
    /\ kernelLinks = LinksPlain
    /\ leases = <<"lease">>
    /\ broken = {}

NextUnsignalled == MainStep \/ Forwarder \/ Reaper \/ ChildExit \/ OrphanExit

SpecUnsignalled ==
    /\ InitUnsignalled /\ [][NextUnsignalled]_vars
    /\ WF_vars(MainStep) /\ WF_vars(Forwarder) /\ WF_vars(Reaper)

(***************************************************************************)
(* Main alone, from the start of the process to the power-off, over every  *)
(* list of links the kernel can report: the loopback first, then ethN, each *)
(* with any of the broadcast and multicast flags.                          *)
(***************************************************************************)
LinkNames == <<"lo", "eth0", "eth1", "eth2", "eth3">>

LinkFlagSets == SUBSET {"broadcast", "multicast"}

LinkLists ==
    UNION {{[i \in 1..n |->
                Link(LinkNames[i],
                     IF i = 1 THEN f[i] \cup {"loopback"} ELSE f[i])] :
              f \in [1..n -> LinkFlagSets]} : n \in 1..MaxLinks}

InitLinks ==
    /\ ProcessInit
    /\ file = File(DocRoot)
    /\ sysDir = FALSE
    /\ kernelLinks \in LinkLists
    /\ leases = <<"lease">>
    /\ broken = {}

NextLinks == MainStep \/ ChildExit

SpecLinks == InitLinks /\ [][NextLinks]_vars

(***************************************************************************)
(* The earlier variants of init (no network, netboot, DHCPv4/v6), which    *)
(* make the command straight from the configuration: os.Setenv, then       *)
(* exec.CommandContext(ctx, ic.Entrypoint.Command,                         *)
(* strings.Split(ic.Cmd, " ")...), over the entrypoints and commands of    *)
(* ArgDocs.                                                                *)
(***************************************************************************)
\* strings.Split(s, " "): the fields between the spaces, one more than there
\* are spaces; the empty string gives one empty field
RECURSIVE SplitOnSpace(_)
SplitOnSpace(s) ==
    LET spaces == {i \in 1..Len(s) : s[i] = " "}
    IN IF spaces = {} THEN <<s>>
       ELSE LET i == CHOOSE x \in spaces : \A y \in spaces : x <= y
            IN <<SubSeq(s, 1, i - 1)>> \o SplitOnSpace(SubSeq(s, i + 1, Len(s)))

\* the program and its arguments as exec.CommandContext receives them
DirectArgs(c) == <<c.entrypoint>> \o SplitOnSpace(c.cmd)

\* exec.CommandContext and the cmd.Dir, cmd.Env assignments after it
CommandDirect ==
    /\ Running /\ pc = "splitArgs"
    /\ args' = DirectArgs(ic)
    /\ cmd' = [made |-> TRUE, dir |-> ic.workDir,
               env |-> {<<k, ic.environment[k]>> : k \in DOMAIN ic.environment}]
    /\ Goto("identity")
    /\ UNCHANGED <<initState, bootVars, uid, gid, cred, sigVars,
                   fwdVars, childVars, rpVars, sysrq, sysDir, envVars>>

InitDirect == \E doc \in ArgDocs : Booted(doc)

NextDirect == Setenv \/ CommandDirect

SpecDirect == InitDirect /\ [][NextDirect]_vars

(***************************************************************************)
(* The launcher alone over signed and large numeric run-as strings: main   *)
(* from os.Setenv to the credential.                                       *)
(***************************************************************************)
SignedRunAs ==
    {<<"-", "1">>, <<"-", "7">>, <<"-", "0">>, <<"-", "1", "2">>, <<"+", "7">>,
     <<"7">>, <<"6", "5", "5", "3", "6">>, <<"-", "6", "5", "5", "3", "6">>}

CredentialDocs ==
    {Doc(<<"/", "t">>, EmptyStr, ra, us, NoEnv) :
        ra \in SignedRunAs, us \in UserLists(MaxUsers)}

InitCredential == \E doc \in CredentialDocs : Booted(doc)

SpecCredential == InitCredential /\ [][NextLaunch]_vars

(***************************************************************************)
(* Properties.                                                             *)
(***************************************************************************)
Range(s) == {s[i] : i \in 1..Len(s)}

SyncThenPoweroff == <<"s", "o">>

\* C1: the reaper never collects (and logs) the workload's pid before the
\* supervisor's own wait has obtained the workload's exit status: whenever the
\* workload's pid is among the pids the reaper reaped, cmd.Wait had the status.
C1_ReaperLeavesWorkloadToSupervisor ==
    WorkloadPid \in Range(reaped) => childStatus = "supervisor"

\* C2: once shutdown is registered, init's execution never ends (by return, by
\* an abort, or by a fault in any goroutine) with shutdown still waiting to be
\* entered.
C2_ShutdownEnteredOnEveryEnd ==
    initState # "running" => "shutdown" \notin Range(deferred)

\* C3: shutdown() writes 's' and then 'o' and nothing else, 'o' only after the
\* write of 's' succeeded; a failed write ends the process fatally at that
\* write; after the write of 'o' main stays in shutdown() for good, so the
\* cancel deferred before it never runs.
C3_ShutdownWritesSyncThenPoweroff ==
    /\ sysrq \in {<<>>, <<"s">>, SyncThenPoweroff}
    /\ sysrq # <<>> => pc \in {"writeO", "block"}
    /\ "failed to sync" \in logs =>
          initState = "fatal" /\ pc = "writeS" /\ sysrq = <<>>
    /\ "failed to poweroff" \in logs =>
          initState = "fatal" /\ pc = "writeO" /\ sysrq = <<"s">>
    /\ sysrq = SyncThenPoweroff =>
          pc = "block" /\ deferred = <<"cancel">>
    /\ pc = "block" => sysrq = SyncThenPoweroff /\ initState \in {"running", "crashed"}

C3_PoweredOff == sysrq = SyncThenPoweroff /\ pc = "block" /\ waitResult = "ok"

\* C4: every signal init receives on the channel while the workload runs, the
\* first and each later one, is passed on to the workload as long as it runs:
\* as many signals get forwarded as were received. cmd.Wait returns only when
\* the workload has exited.
C4_EverySignalForwarded ==
    /\ [](waitResult # "none" => child = "reaped")
    /\ \A n \in 1..MaxSignals :
          Len(received) >= n
             ~> (Len(forwarded) >= n \/ child # "running" \/ initState # "running")

\* C5: the forwarder never reads the workload's process handle, nor signals
\* through it, before cmd.Start has returned it.
C5_ForwarderAfterStart ==
    fwdPc \in {"signal", "panic", "done"} => cmdProcess # 0

\* C6: when cmd.Start fails, boot aborts after exactly one start attempt and,
\* however main and the forwarder interleave, init does not end before
\* shutdown has written 's' then 'o' (or a write failed, which is fatal).
C6_StartFailureStillShutsDown ==
    "failed to run command" \in logs =>
        /\ panicking /\ startAttempts = 1 /\ child = "none"
        /\ initState # "running" => sysrq = SyncThenPoweroff \/ initState = "fatal"

\* C7: when /etc/apko.json cannot be read, boot goes on with the zero
\* configuration, whose environment becomes {PATH: defaultPath}, and the only
\* abort is the one at launch on the empty argument vector.
C7_UnreadableConfigProceeds ==
    ("failed to read /etc/apko.json" \in logs /\ pc # "unmarshal") =>
        /\ "failed to unmarshal /etc/apko.json" \notin logs
        /\ ic.entrypoint = EmptyStr /\ ic.cmd = EmptyStr
        /\ panicking => "index out of range" \in logs

WorkloadExitedAtWait == pc = "wait" /\ child \in {"zombie", "reaped"}

\* C8 as stated: once the workload has exited, cmd.Wait returns, with a status
\* or with an error, and shutdown then writes 's' then 'o'.
C8_WaitReturnsThenPoweroff ==
    WorkloadExitedAtWait ~> (waitResult # "none" /\ sysrq = SyncThenPoweroff)

\* C8, amended: once the workload has exited, cmd.Wait returns, with a status
\* or with an error, and shutdown then writes 's' then 'o', unless one of the
\* two writes fails, which ends init fatally.
C8_WaitReturnsThenPoweroffOrFatal ==
    WorkloadExitedAtWait ~>
        /\ waitResult # "none"
        /\ \/ sysrq = SyncThenPoweroff
           \/ initState = "fatal" /\ logs \cap {"failed to sync", "failed to poweroff"} # {}

C8_PoweredOffAfterWaitError == waitResult = "error" /\ sysrq = SyncThenPoweroff

IdentityResolved ==
    pc \in {"credential", "makeSigs"} \/ "failed to convert run-as user" \in logs

\* record i of accounts.users carries runAs as its username or as its uid
\* written in decimal
IsMatch(i) ==
    \/ ic.users[i].username = ic.runAs
    \/ Sprint(ic.users[i].uid) = ic.runAs

IsFirstMatch(i) ==
    /\ i \in 1..Len(ic.users)
    /\ IsMatch(i)
    /\ \A j \in 1..(i - 1) : ~IsMatch(j)

\* C9: when runAs is the username or the decimal uid of a record of
\* accounts.users, identity resolution does not abort and the workload's uid
\* and gid are those of the first such record, also when that uid is 0 and the
\* username is not "root".
C9_MatchedUserIdentity ==
    \A i \in 1..Len(ic.users) :
        (IdentityResolved /\ ic.runAs # EmptyStr /\ IsFirstMatch(i)) =>
            /\ "failed to convert run-as user" \notin logs
            /\ uid = ic.users[i].uid
            /\ gid = ic.users[i].gid

BareDecimal(s) == s # EmptyStr /\ \A i \in 1..Len(s) : s[i] \in Digits

RECURSIVE Canonical(_)
Canonical(s) == IF Len(s) > 1 /\ Head(s) = "0" THEN Canonical(Tail(s)) ELSE s

\* C10: when runAs is a bare decimal number, matches no record of
\* accounts.users and is not "root", identity resolution does not abort, the
\* uid is that number (printing the uid gives runAs back, leading zeros aside)
\* and the gid is 0, and the credential carries that pair.
C10_NumericRunAsIdentity ==
    (/\ IdentityResolved
     /\ BareDecimal(ic.runAs)
     /\ ic.runAs # RootStr
     /\ \A i \in 1..Len(ic.users) : ~IsMatch(i)) =>
        /\ "failed to convert run-as user" \notin logs
        /\ Sprint(uid) = Canonical(ic.runAs)
        /\ gid = 0
        /\ cred.set => cred.uid = Uint32(uid) /\ cred.gid = Uint32(0)

C10_NumericRunAsLaunched ==
    /\ pc = "makeSigs"
    /\ ic.runAs = <<"1", "2">>
    /\ \A i \in 1..Len(ic.users) : ~IsMatch(i)
    /\ ic.users # <<>>
    /\ uid = 12 /\ gid = 0
    /\ cred.set

\* C11: when runAs is empty, identity resolution does not abort and the
\* workload's credential is uid 0 and gid 0, whatever accounts.users holds.
C11_EmptyRunAsIsRoot ==
    (IdentityResolved /\ ic.runAs = EmptyStr) =>
        /\ "failed to convert run-as user" \notin logs
        /\ uid = 0 /\ gid = 0
        /\ cred.set => cred.uid = [hi |-> 0, lo |-> 0] /\ cred.gid = [hi |-> 0, lo |-> 0]

C11_EmptyRunAsLaunched ==
    /\ pc = "makeSigs"
    /\ ic.runAs = EmptyStr
    /\ Len(ic.users) = MaxUsers
    /\ \E i \in 1..Len(ic.users) : ic.users[i].uid # 0
    /\ cred = [set |-> TRUE, uid |-> [hi |-> 0, lo |-> 0], gid |-> [hi |-> 0, lo |-> 0]]

\* the tokens a configuration string contributes: none when it is empty
Toks(s) == IF s = EmptyStr THEN <<>> ELSE Split(s).toks

SplitFails(s) == s # EmptyStr /\ Split(s).err

\* a string of plain runes and spaces only: no quote, escape or comment rune
Plain(s) == \A i \in 1..Len(s) : s[i] \notin {"'", "\"", "\\", "#"}

\* the words of a plain string: its maximal runs of runes other than the space
WordStarts(s) == {i \in 1..Len(s) : s[i] # " " /\ (i = 1 \/ s[i - 1] = " ")}

WordEnd(s, i) ==
    CHOOSE j \in i..Len(s) :
        /\ \A k \in i..j : s[k] # " "
        /\ j = Len(s) \/ s[j + 1] = " "

Words(s) ==
    [k \in 1..Cardinality(WordStarts(s)) |->
        LET i == CHOOSE x \in WordStarts(s) :
                    Cardinality({y \in WordStarts(s) : y <= x}) = k
        IN SubSeq(s, i, WordEnd(s, i))]

ArgsBuilt == pc \in {"command", "identity"} \/ cmd.made

\* C12: the argument vector is the lexical split of entrypoint.command followed
\* by the lexical split of cmd, an empty string contributing no token: with an
\* empty cmd it is the split of the entrypoint alone, for strings without
\* quoting it is their words in order, and without quotes in the configuration
\* no argument is the empty string.
C12_ArgsAreEntrypointThenCmd ==
    ArgsBuilt =>
        /\ args = Toks(ic.entrypoint) \o Toks(ic.cmd)
        /\ ic.cmd = EmptyStr => args = Split(ic.entrypoint).toks
        /\ ic.entrypoint = EmptyStr => args = Split(ic.cmd).toks
        /\ (Plain(ic.entrypoint) /\ Plain(ic.cmd)) =>
              args = Words(ic.entrypoint) \o Words(ic.cmd)
        /\ (\A s \in {ic.entrypoint, ic.cmd} : \A i \in 1..Len(s) : s[i] \notin {"'", "\""}) =>
              \A i \in 1..Len(args) : args[i] # EmptyStr

C12_TwoWordsThenCmd ==
    /\ cmd.made
    /\ ic.entrypoint = <<"t", " ", "t">>
    /\ ic.cmd = <<"a", " ", " ", "b">>
    /\ args = <<<<"t">>, <<"t">>, <<"a">>, <<"b">>>>

\* the configuration gives no usable vector: a split fails, or there is no token
ArgsUnusable ==
    \/ SplitFails(ic.entrypoint)
    \/ SplitFails(ic.cmd)
    \/ Toks(ic.entrypoint) \o Toks(ic.cmd) = <<>>

InShutdown == pc \in {"writeS", "writeO", "block"}

\* C13: when the argument vector is empty or a lexical split fails, boot
\* aborts at the launch: no command is made, no workload is ever started, and
\* main's teardown goes on into shutdown().
C13_UnusableArgsAbort ==
    /\ [](ArgsUnusable =>
            /\ ~cmd.made /\ cmdProcess = 0
            /\ child = "none" /\ startAttempts = 0
            /\ pc \notin {"identity", "credential", "makeSigs", "notify",
                          "goForward", "start", "startReturn", "wait"})
    /\ (ArgsUnusable /\ pc = "setenv") ~>
          /\ InShutdown
          /\ panicking
          /\ logs \cap {"failed to split entrypoint", "failed to split command",
                        "index out of range"} # {}

C13_EmptyVectorPoweredOff ==
    /\ ic.entrypoint = <<"#", "t">> /\ ic.cmd = <<" ">>
    /\ "index out of range" \in logs
    /\ child = "none"
    /\ sysrq = SyncThenPoweroff

\* the environment as the configuration file gives it
Configured == b.doc.environment

ConfigLoaded ==
    pc \notin {"notifyContext", "goReaper", "mountProc", "deferShutdown", "mountDev",
               "mkdirSys", "mountSys", "mountCgroup", "mountTmp", "readFile",
               "unmarshal", "ensurePath"}
        /\ "failed to unmarshal /etc/apko.json" \notin logs

\* C14: after a successful parse the environment of the loaded configuration
\* has exactly the configured variables and PATH: PATH is defaultPath when the
\* file gives none, and every variable the file gives, PATH included, keeps
\* its value.
C14_PathEnsured ==
    ConfigLoaded =>
        /\ DOMAIN ic.environment = DOMAIN Configured \cup {"PATH"}
        /\ \A k \in DOMAIN Configured : ic.environment[k] = Configured[k]
        /\ "PATH" \notin DOMAIN Configured => ic.environment["PATH"] = defaultPath

C14_ConfiguredPathKept ==
    /\ pc = "loopbackUp"
    /\ DOMAIN Configured = {"PATH", "HOME"}
    /\ Configured["PATH"] = EmptyStr
    /\ ic.environment = Configured

\* C18: the results of the DHCP client are consumed one by one, each once and
\* in order; a result with an error or a lease that cannot be applied is logged
\* and aborts nothing; the step finishes only when no result is left, and main
\* then goes on to the launch.
C18_EveryDhcpResultConsumed ==
    /\ [][dhcp'.results \o leases' = dhcp.results \o leases]_vars
    /\ [](pc = "results" => ~panicking /\ initState = "running" /\ dhcp.sent)
    /\ []("Finished trying to configure all interfaces." \in logs => leases = <<>>)
    /\ []("Could not configure" \in logs <=>
            \E i \in 1..Len(dhcp.results) : dhcp.results[i] # "lease")
    /\ pc = "results" ~> (pc = "setenv" /\ leases = <<>>)

C18_MixedResultsThenLaunch ==
    /\ pc = "splitArgs"
    /\ dhcp.results = <<"error", "lease", "unusable">>
    /\ leases = <<>>
    /\ ~panicking

\* the mount calls made so far, by mount point
Attempted == [i \in 1..Len(mounts) |-> mounts[i][1]]

AfterMounts ==
    pc \notin {"notifyContext", "goReaper", "mountProc", "deferShutdown", "mountDev",
               "mkdirSys", "mountSys", "mountCgroup", "mountTmp"}

\* C15: when the mount of /proc fails boot is aborted there: no later mount is
\* attempted, the configuration is not read, no link is touched and no workload
\* is launched.
C15_ProcMountFailureAborts ==
    (mounts # <<>> /\ mounts[1] = <<"/proc", FALSE>>) =>
        /\ Len(mounts) = 1
        /\ pc \in {"deferShutdown", "mountDev"}
        /\ ~loUp /\ links = <<>> /\ ~dhcp.sent
        /\ ~cmd.made /\ child = "none"

MountOrder == <<"/proc", "/dev", "/sys", "/sys/fs/cgroup", "/tmp">>

\* C16: the mount calls are made one after the other in the order proc, dev,
\* sys, cgroup, tmp: whatever calls failed, the calls made so far are the first
\* ones of that order, and once main is past the mounts all five were made and
\* boot went on.
C16_AllMountsAttemptedInOrder ==
    /\ Len(mounts) <= Len(MountOrder)
    /\ Attempted = SubSeq(MountOrder, 1, Len(mounts))
    /\ AfterMounts => Attempted = MountOrder

\* no listed link has both the broadcast and the multicast flag
NoSuitableLink ==
    /\ links # <<>>
    /\ \A i \in 1..Len(links) : ~({"broadcast", "multicast"} \subseteq links[i].flags)

\* C17: when no listed link has both flags, main aborts at the link selection:
\* it cannot be anywhere past it except in the teardown of that abort, no DHCP
\* request is issued and no workload is started. In every boot the loopback is
\* up before a link is selected and the selected link is up before a DHCP
\* request is issued.
C17_NoSuitableLinkAborts ==
    /\ NoSuitableLink =>
          /\ pc \in {"selectLink", "eth0Up", "unwind", "writeS", "writeO", "block"}
          /\ pc \in {"selectLink", "eth0Up"} => (initState = "running" => ENABLED MainStep)
          /\ pc \notin {"selectLink", "eth0Up"} =>
                panicking /\ "no suitable interface found to listen on" \in logs
          /\ eth0 = 0 /\ ~eth0Up /\ ~dhcp.sent
          /\ ~cmd.made /\ child = "none" /\ startAttempts = 0
    /\ (links # <<>> \/ eth0 # 0 \/ eth0Up) => loUp
    /\ dhcp.sent => (eth0 # 0 /\ eth0Up /\ loUp)

C17_AbortedAtSelection ==
    /\ NoSuitableLink
    /\ \E i \in 1..Len(links) : "multicast" \in links[i].flags
    /\ "no suitable interface found to listen on" \in logs
    /\ sysrq = SyncThenPoweroff
    /\ ~dhcp.sent /\ child = "none"

\* C19: once the context is cancelled init is not left hanging and does not
\* end short of the power-off: it never stops running before main has entered
\* shutdown().
C19_CancelReachesShutdown ==
    (ctx = "done" /\ initState # "running") => InShutdown

\* C20: the reaper is started before any mount and any network activity and,
\* once started, never returns; every descendant other than the workload that
\* has exited is eventually collected by it as long as init lives, also while
\* main waits for the workload or sits in shutdown().
C20_ReaperCollectsEveryOrphan ==
    /\ []((mounts # <<>> \/ loUp \/ links # <<>>) => rpPc # "off")
    /\ [][rpPc # "off" => rpPc' # "off"]_vars
    /\ \A n \in 1..MaxOrphans :
          (OrphanPid(n) \in zombies) ~>
              (OrphanPid(n) \in Range(reaped) \/ initState # "running")

C20_OrphanReapedWhilePoweredOff ==
    /\ pc = "block"
    /\ childStatus = "supervisor"
    /\ reaped # <<>>
    /\ reaped[Len(reaped)] = OrphanPid(MaxOrphans)
    /\ zombies = {}

\* C21: whenever the /sys directory is there after the os.Mkdir step, whether
\* it existed before boot or was created by init, the sysfs mount is attempted
\* on it: once main has passed the sysfs step, /sys is among the mount calls.
C21_SysMountedWhenDirAvailable ==
    (sysDir /\ pc \notin {"notifyContext", "goReaper", "mountProc", "deferShutdown",
                          "mountDev", "mkdirSys", "mountSys"})
        => \E i \in 1..Len(mounts) : mounts[i][1] = "/sys"

\* C22: the reaper goes to sleep only from a Wait4 that found no exited child;
\* a reaped pid is logged and the next Wait4 follows at once; an interrupted
\* Wait4 logs nothing, collects nothing and is followed at once by a Wait4 that
\* can again collect any exited child.
C22_ReaperSleepsOnlyWhenIdle ==
    /\ [][(rpPc # "sleep" /\ rpPc' = "sleep") =>
              (rpPc \in {"wait4", "retry"} /\ Reapable = {})]_vars
    /\ [][reaped' # reaped =>
              /\ \E p \in Reapable : reaped' = Append(reaped, p)
              /\ rpPc' = "wait4"]_vars
    /\ [][(rpPc = "wait4" /\ rpPc' = "retry") =>
              (reaped' = reaped /\ logs' = logs /\ Reapable' = Reapable)]_vars
    /\ [](rpPc = "retry" /\ initState = "running" =>
              (Reapable # {} <=> ENABLED ReaperReap))

C22_InterruptedWithExitedChild ==
    /\ rpPc = "retry"
    /\ reaped # <<>>
    /\ Reapable # {}
    /\ initState = "running"

\* C23: the link main selects is the first listed link that is not the
\* loopback and has both the broadcast and the multicast flag (none if there is
\* no such link); the loopback is never the selected link.
C23_PrimaryIsFirstNonLoopback ==
    (links # <<>> /\ pc # "selectLink") =>
        LET hits == {i \in 1..Len(links) :
                        /\ "loopback" \notin links[i].flags
                        /\ {"broadcast", "multicast"} \subseteq links[i].flags}
        IN eth0 = IF hits = {} THEN 0
                  ELSE CHOOSE i \in hits : \A j \in hits : i <= j

\* C24: in the variants that make the command straight from the configuration,
\* a non-empty entrypoint.command with an empty cmd gives the entrypoint alone:
\* one element, and no empty-string argument after it.
C24_EmptyCmdAddsNoArgument ==
    (cmd.made /\ ic.entrypoint # EmptyStr /\ ic.cmd = EmptyStr) =>
        /\ args = <<ic.entrypoint>>
        /\ \A i \in 2..Len(args) : args[i] # EmptyStr

\* C25: the forwarder wakes up, logs and calls cmd.Process.Signal only for a
\* signal init received: when the workload has exited and no signal ever
\* reached init, main's teardown leaves the forwarder waiting on the channel.
C25_ForwarderWakesOnlyOnSignal ==
    (sigCount = 0 /\ child \in {"zombie", "reaped"}) => fwdPc \in {"off", "recv"}

\* C26: the uid and the gid in the workload's credential are the resolved
\* integers themselves, which lie in 0..2^32-1: no resolved value is negative
\* or too large, and none reaches the credential reduced modulo 2^32.
C26_CredentialIsResolvedIdentity ==
    cred.set =>
        /\ uid >= 0 /\ uid \div 65536 < 65536
        /\ gid >= 0 /\ gid \div 65536 < 65536
        /\ cred.uid = [hi |-> uid \div 65536, lo |-> uid % 65536]
        /\ cred.gid = [hi |-> gid \div 65536, lo |-> gid % 65536]

====
